---- MODULE Spec2Model ----
(***************************************************************************)
(* Model of mailtm.impls.xclient.AsyncMail: the request gateway of the     *)
(* Mail.tm client.  Every public coroutine builds a URL, a body and/or a   *)
(* params mapping, awaits _interact, and decodes the returned bytes.       *)
(* _interact awaits one aiohttp call, inspects the status and either       *)
(* awaits result.read() or raises.  Each coroutine is modelled by the      *)
(* segments between its awaits:                                            *)
(*   call      -> the verb dispatch of _interact sends the request         *)
(*   Respond   -> the awaited aiohttp call yields `result`; status check   *)
(*   ReadDone  -> the awaited result.read() yields the bytes; decode       *)
(*   Return    -> the caller takes the outcome; the coroutine is gone      *)
(***************************************************************************)
EXTENDS Integers, Sequences, FiniteSets, TLC

VARIABLES
    _account_token,  \* self._account_token
    headers,         \* self._client.headers, the session's default headers
    closed,          \* the aiohttp session was closed
    pc,              \* per coroutine: "idle", "awaiting", "reading", "done"
    frame,           \* per coroutine: the operation called and its arguments
    sent,            \* per coroutine: the requests the current call has issued
    reply,           \* per coroutine: what the server answered on its connection
    result,          \* per coroutine: the local `result` of _interact
    iout,            \* per coroutine: how its _interact call ended
    decodes,         \* per coroutine: msgspec.json.decode calls of the current call
    outcome          \* per coroutine: how the public operation ended

vars == <<_account_token, headers, closed, pc, frame, sent, reply, result,
          iout, decodes, outcome>>

(***************************************************************************)
(* Bounds and input sets                                                   *)
(***************************************************************************)
NumTasks == 2
MaxPage == 2

Tasks == 1..NumTasks
SeqTasks == {1}
Ids == {"a1", "a2"}
Pages == 1..MaxPage
Addresses == {"user@ex.com"}
Passwords == {"pw123456"}
EMPTY == ""
JSON_DOC == "{json}"
Bodies == {EMPTY, JSON_DOC}
Statuses == {200, 204, 400, 401, 403, 404, 405, 418, 422, 429, 500}
AllMethods == {"GET", "POST", "DELETE", "PATCH", "PUT"}

(***************************************************************************)
(* Python values                                                           *)
(***************************************************************************)
PyNone == [tag |-> "None"]
PyStr(s) == [tag |-> "str", v |-> s]
PyInt(n) == [tag |-> "int", v |-> n]
PyBytes(b) == [tag |-> "bytes", v |-> b]
PyDict(d) == [tag |-> "dict", v |-> d]
PyObj(type, data) == [tag |-> "obj", type |-> type, v |-> data]
Token(id, token) == [tag |-> "Token", id |-> id, token |-> token]

Tokens == {Token("a1", "k1"), Token("a3", "k3")}

Return_(v) == [kind |-> "return", value |-> v]
Raise(e) == [kind |-> "raise", error |-> e]
Pending == [kind |-> "pending"]
NoFrame == [op |-> "-"]

\* f"{x}" of a str is the str; of an int its decimal digits
FStr(x) == IF x.tag = "int" THEN ToString(x.v) ELSE x.v

(***************************************************************************)
(* Endpoints (core.methods) and URLs                                       *)
(***************************************************************************)
_base_url == "https://api.mail.tm"

GET_ME == <<"me">>
GET_ALL_DOMAINS == <<"domains">>
GET_DOMAIN_BY_ID == <<"domains", "{id}">>
GET_ACCOUNT_BY_ID == <<"accounts", "{id}">>
CREATE_ACCOUNT == <<"accounts">>
DELETE_ACCOUNT_BY_ID == <<"accounts", "{id}">>
GET_ALL_MESSAGES == <<"messages">>
GET_MESSAGE_BY_ID == <<"messages", "{id}">>
DELETE_MESSAGE_BY_ID == <<"messages", "{id}">>
PATCH_MESSAGE_BY_ID == <<"messages", "{id}">>
GET_SOURCES_BY_ID == <<"sources", "{id}">>

\* template.format(id=...)
Format(template, id) ==
    [i \in DOMAIN template |-> IF template[i] = "{id}" THEN id ELSE template[i]]

\* urllib.parse.urljoin(base, path) for a base without a path
urljoin(base, path) == [base |-> base, path |-> path]

_create_url(other_literal) == urljoin(_base_url, other_literal)

(***************************************************************************)
(* __init__                                                                *)
(***************************************************************************)
\* the header update of __init__ left out
SessionHeadersNone(account_token) == {}

SessionHeaders(account_token) ==
    IF account_token # PyNone
    THEN {<<"Authorization", <<"Bearer", account_token>>>>}
    ELSE {}

Init ==
    /\ _account_token \in {PyNone} \cup Tokens
    /\ headers = SessionHeaders(_account_token)
    /\ closed = FALSE
    /\ pc = [t \in Tasks |-> "idle"]
    /\ frame = [t \in Tasks |-> NoFrame]
    /\ sent = [t \in Tasks |-> <<>>]
    /\ reply = [t \in Tasks |-> PyNone]
    /\ result = [t \in Tasks |-> PyNone]
    /\ iout = [t \in Tasks |-> Pending]
    /\ decodes = [t \in Tasks |-> 0]
    /\ outcome = [t \in Tasks |-> Pending]

(***************************************************************************)
(* _interact                                                               *)
(***************************************************************************)
\* an unknown verb sent as a GET instead of raising
ClientCallDefaultGet(method, url, body, params) ==
    IF method = "POST"
    THEN <<[method |-> "POST", url |-> url, params |-> PyNone, json |-> body]>>
    ELSE IF method = "DELETE"
    THEN <<[method |-> "DELETE", url |-> url, params |-> params, json |-> PyNone]>>
    ELSE IF method = "PATCH"
    THEN <<[method |-> "PATCH", url |-> url, params |-> PyNone, json |-> body]>>
    ELSE <<[method |-> "GET", url |-> url, params |-> params, json |-> PyNone]>>

\* lines 44-55: which aiohttp call the verb selects and what it is given
ClientCall(method, url, body, params) ==
    IF method = "GET"
    THEN <<[method |-> "GET", url |-> url, params |-> params, json |-> PyNone]>>
    ELSE IF method = "POST"
    THEN <<[method |-> "POST", url |-> url, params |-> PyNone, json |-> body]>>
    ELSE IF method = "DELETE"
    THEN <<[method |-> "DELETE", url |-> url, params |-> params, json |-> PyNone]>>
    ELSE IF method = "PATCH"
    THEN <<[method |-> "PATCH", url |-> url, params |-> PyNone, json |-> body]>>
    ELSE <<>>

\* the session adds its default headers to every request it sends
OnWire(calls, hdrs) ==
    [i \in DOMAIN calls |->
        [method |-> calls[i].method, url |-> calls[i].url,
         params |-> calls[i].params, json |-> calls[i].json, headers |-> hdrs]]

\* every 2xx status taken as success
InteractStatus2xx(status, bytes) ==
    IF status >= 200 /\ status < 300 THEN Return_(bytes)
    ELSE IF status = 400 THEN Raise("MissingArgument")
    ELSE IF status = 401 THEN Raise("AccountTokenInvalid")
    ELSE IF status = 404 THEN Raise("EntityNotFound")
    ELSE IF status = 405 THEN Raise("MethodNotAllowed")
    ELSE IF status = 418 THEN Raise("RefusedToProcess")
    ELSE IF status = 422 THEN Raise("EntityNotProcessable")
    ELSE IF status = 429 THEN Raise("RatelimitError")
    ELSE Raise("ValueError")

\* lines 57-88: the status of `result` decides between the bytes and an error
InteractStatus(status, bytes) ==
    IF status = 200 THEN Return_(bytes)
    ELSE IF status = 400 THEN Raise("MissingArgument")
    ELSE IF status = 401 THEN Raise("AccountTokenInvalid")
    ELSE IF status = 404 THEN Raise("EntityNotFound")
    ELSE IF status = 405 THEN Raise("MethodNotAllowed")
    ELSE IF status = 418 THEN Raise("RefusedToProcess")
    ELSE IF status = 422 THEN Raise("EntityNotProcessable")
    ELSE IF status = 429 THEN Raise("RatelimitError")
    ELSE Raise("ValueError")

\* `result` kept on the gateway, where every coroutine sees the last one stored
StoreResultShared(res, t, response) == [u \in DOMAIN res |-> response]

\* `result = await self._client...`: result is a local of the coroutine
StoreResult(res, t, response) == [res EXCEPT ![t] = response]

(***************************************************************************)
(* The public operations after _interact                                   *)
(***************************************************************************)
DecodeTypes == {"Account", "DomainPageView", "Domain", "MessagePageView",
                "Message", "Source"}

\* msgspec.json.decode(resp, type=type, strict=False)
Decode(resp, type) ==
    IF resp.v = EMPTY THEN Raise("DecodeError") ELSE Return_(PyObj(type, resp.v))

\* the `if resp is not None` of the decoding operations
Decodes(type, io) ==
    IF io.kind = "return" /\ type \in DecodeTypes /\ io.value # PyNone
    THEN 1 ELSE 0

\* the operations without a decoded result swallowing the error
OpResultSwallow(type, io) ==
    IF type = "bytes" THEN io
    ELSE IF type \in DecodeTypes
    THEN IF io.kind = "raise" THEN io
         ELSE IF io.value # PyNone THEN Decode(io.value, type) ELSE Return_(PyNone)
    ELSE Return_(PyNone)

\* how an operation ends, given how its _interact call ended
OpResult(type, io) ==
    IF io.kind = "raise" THEN io
    ELSE IF type = "bytes" THEN io
    ELSE IF type \in DecodeTypes
    THEN IF io.value # PyNone THEN Decode(io.value, type) ELSE Return_(PyNone)
    ELSE Return_(PyNone)

\* an operation awaits _interact(method, url, body, params)
Invoke(t, op, args, method, url, body, params, type) ==
    LET calls == ClientCall(method, url, body, params) IN
    /\ pc[t] = "idle"
    /\ ~closed
    /\ frame' = [frame EXCEPT ![t] =
                    [op |-> op, args |-> args, method |-> method, url |-> url,
                     body |-> body, params |-> params, type |-> type]]
    /\ sent' = [sent EXCEPT ![t] = OnWire(calls, headers)]
    /\ IF calls # <<>>
       THEN /\ pc' = [pc EXCEPT ![t] = "awaiting"]
            /\ UNCHANGED <<iout, outcome>>
       ELSE /\ pc' = [pc EXCEPT ![t] = "done"]
            /\ iout' = [iout EXCEPT ![t] = Raise("MethodNotAllowed")]
            /\ outcome' = [outcome EXCEPT ![t] =
                              OpResult(type, Raise("MethodNotAllowed"))]
    /\ UNCHANGED <<_account_token, headers, closed, reply, result, decodes>>

get_me(t) ==
    Invoke(t, "get_me", <<>>, "GET", _create_url(GET_ME), PyNone, PyNone,
           "Account")

get_domains(t) ==
    Invoke(t, "get_domains", <<>>, "GET", urljoin(_base_url, GET_ALL_DOMAINS),
           PyNone, PyNone, "DomainPageView")

get_domain(t, domain_id) ==
    Invoke(t, "get_domain", <<PyStr(domain_id)>>, "GET",
           urljoin(_base_url, Format(GET_DOMAIN_BY_ID, domain_id)),
           PyNone, PyNone, "Domain")

get_account(t, account_id) ==
    Invoke(t, "get_account", <<PyStr(account_id)>>, "POST",
           urljoin(_base_url, Format(GET_ACCOUNT_BY_ID, account_id)),
           PyNone, PyDict([id |-> FStr(PyStr(account_id))]), "Account")

create_account(t, address, password) ==
    LET body == PyDict([address |-> FStr(PyStr(address)),
                        password |-> FStr(PyStr(password))]) IN
    Invoke(t, "create_account", <<PyStr(address), PyStr(password)>>, "POST",
           urljoin(_base_url, CREATE_ACCOUNT), body, PyNone, "Account")

\* the token branch forgotten: without an explicit id the call always raises
delete_accountNoTokenBranch(t, account_id) ==
    IF account_id # PyNone
    THEN Invoke(t, "delete_account", <<account_id>>, "DELETE",
                urljoin(_base_url, Format(DELETE_ACCOUNT_BY_ID, account_id.v)),
                PyNone, PyNone, "")
    ELSE /\ pc[t] = "idle"
         /\ ~closed
         /\ frame' = [frame EXCEPT ![t] =
                         [op |-> "delete_account", args |-> <<account_id>>,
                          type |-> ""]]
         /\ pc' = [pc EXCEPT ![t] = "done"]
         /\ outcome' = [outcome EXCEPT ![t] = Raise("AccountTokenInvalid")]
         /\ UNCHANGED <<_account_token, headers, closed, sent, reply, result,
                        iout, decodes>>

\* account_id is PyNone or a PyStr
delete_account(t, account_id) ==
    IF _account_token # PyNone /\ account_id = PyNone
    THEN Invoke(t, "delete_account", <<account_id>>, "DELETE",
                urljoin(_base_url,
                        Format(DELETE_ACCOUNT_BY_ID, _account_token.id)),
                PyNone, PyNone, "")
    ELSE IF account_id # PyNone
    THEN Invoke(t, "delete_account", <<account_id>>, "DELETE",
                urljoin(_base_url, Format(DELETE_ACCOUNT_BY_ID, account_id.v)),
                PyNone, PyNone, "")
    ELSE /\ pc[t] = "idle"
         /\ ~closed
         /\ frame' = [frame EXCEPT ![t] =
                         [op |-> "delete_account", args |-> <<account_id>>,
                          type |-> ""]]
         /\ pc' = [pc EXCEPT ![t] = "done"]
         /\ outcome' = [outcome EXCEPT ![t] = Raise("AccountTokenInvalid")]
         /\ UNCHANGED <<_account_token, headers, closed, sent, reply, result,
                        iout, decodes>>

get_messages(t, page) ==
    Invoke(t, "get_messages", <<PyInt(page)>>, "GET",
           urljoin(_base_url, GET_ALL_MESSAGES), PyNone,
           PyDict([page |-> FStr(PyInt(page))]), "MessagePageView")

get_message(t, message_id) ==
    Invoke(t, "get_message", <<PyStr(message_id)>>, "GET",
           urljoin(_base_url, Format(GET_MESSAGE_BY_ID, message_id)), PyNone,
           PyDict([id |-> FStr(PyStr(message_id))]), "Message")

delete_message(t, message_id) ==
    Invoke(t, "delete_message", <<PyStr(message_id)>>, "DELETE",
           urljoin(_base_url, Format(DELETE_MESSAGE_BY_ID, message_id)), PyNone,
           PyDict([id |-> FStr(PyStr(message_id))]), "")

mark_as_seen(t, message_id) ==
    Invoke(t, "mark_as_seen", <<PyStr(message_id)>>, "PATCH",
           urljoin(_base_url, Format(PATCH_MESSAGE_BY_ID, message_id)), PyNone,
           PyDict([id |-> FStr(PyStr(message_id))]), "")

get_source(t, source_id) ==
    Invoke(t, "get_source", <<PyStr(source_id)>>, "GET",
           urljoin(_base_url, Format(GET_SOURCES_BY_ID, source_id)), PyNone,
           PyDict([id |-> FStr(PyStr(source_id))]), "Source")

\* a direct call of _interact, with any verb, body and params
interact(t, method, url, body, params) ==
    Invoke(t, "_interact", <<PyStr(method), url, body, params>>, method, url,
           body, params, "bytes")

\* callers must not close while a call is in flight, nor call after close
close ==
    /\ \A t \in Tasks : pc[t] \in {"idle", "done"}
    /\ closed' = TRUE
    /\ UNCHANGED <<_account_token, headers, pc, frame, sent, reply, result,
                   iout, decodes, outcome>>

(***************************************************************************)
(* The awaits                                                              *)
(***************************************************************************)
\* a rate-limited request sent again instead of raising
RespondRetry(t, status, body) ==
    LET response == [status |-> status, body |-> body]
        res == StoreResult(result, t, response) IN
    /\ pc[t] = "awaiting"
    /\ reply' = [reply EXCEPT ![t] = response]
    /\ result' = res
    /\ IF res[t].status = 200
       THEN /\ pc' = [pc EXCEPT ![t] = "reading"]
            /\ UNCHANGED <<iout, outcome, sent>>
       ELSE IF res[t].status = 429
       THEN /\ sent' = [sent EXCEPT ![t] = Append(sent[t], sent[t][1])]
            /\ UNCHANGED <<pc, iout, outcome>>
       ELSE /\ pc' = [pc EXCEPT ![t] = "done"]
            /\ iout' = [iout EXCEPT ![t] = InteractStatus(res[t].status, PyNone)]
            /\ outcome' = [outcome EXCEPT ![t] =
                              OpResult(frame[t].type, iout'[t])]
            /\ UNCHANGED sent
    /\ UNCHANGED <<_account_token, headers, closed, frame, decodes>>

\* the awaited aiohttp call returns a response: lines 45-53, then 57-88
Respond(t, status, body) ==
    LET response == [status |-> status, body |-> body]
        res == StoreResult(result, t, response) IN
    /\ pc[t] = "awaiting"
    /\ reply' = [reply EXCEPT ![t] = response]
    /\ result' = res
    /\ IF res[t].status = 200
       THEN /\ pc' = [pc EXCEPT ![t] = "reading"]
            /\ UNCHANGED <<iout, outcome>>
       ELSE /\ pc' = [pc EXCEPT ![t] = "done"]
            /\ iout' = [iout EXCEPT ![t] = InteractStatus(res[t].status, PyNone)]
            /\ outcome' = [outcome EXCEPT ![t] =
                              OpResult(frame[t].type, iout'[t])]
    /\ UNCHANGED <<_account_token, headers, closed, frame, sent, decodes>>

\* the awaited result.read() returns the bytes: line 58, then the operation
ReadDone(t) ==
    LET io == InteractStatus(result[t].status, PyBytes(result[t].body)) IN
    /\ pc[t] = "reading"
    /\ iout' = [iout EXCEPT ![t] = io]
    /\ decodes' = [decodes EXCEPT ![t] = Decodes(frame[t].type, io)]
    /\ outcome' = [outcome EXCEPT ![t] = OpResult(frame[t].type, io)]
    /\ pc' = [pc EXCEPT ![t] = "done"]
    /\ UNCHANGED <<_account_token, headers, closed, frame, sent, reply, result>>

\* the caller has the outcome; the coroutine and its locals are gone
Return(t) ==
    /\ pc[t] = "done"
    /\ pc' = [pc EXCEPT ![t] = "idle"]
    /\ frame' = [frame EXCEPT ![t] = NoFrame]
    /\ sent' = [sent EXCEPT ![t] = <<>>]
    /\ reply' = [reply EXCEPT ![t] = PyNone]
    /\ result' = [result EXCEPT ![t] = PyNone]
    /\ iout' = [iout EXCEPT ![t] = Pending]
    /\ decodes' = [decodes EXCEPT ![t] = 0]
    /\ outcome' = [outcome EXCEPT ![t] = Pending]
    /\ UNCHANGED <<_account_token, headers, closed>>

(***************************************************************************)
(* Specifications                                                          *)
(***************************************************************************)
TestUrl == urljoin(_base_url, <<"x">>)
TestBodies == {PyNone, PyDict([k |-> "v"])}
TestParams == {PyNone, PyDict([q |-> "1"])}

\* one caller, every operation, every status
Next ==
    \/ \E t \in SeqTasks : get_me(t)
    \/ \E t \in SeqTasks : get_domains(t)
    \/ \E t \in SeqTasks, id \in Ids : get_domain(t, id)
    \/ \E t \in SeqTasks, id \in Ids : get_account(t, id)
    \/ \E t \in SeqTasks, a \in Addresses, p \in Passwords : create_account(t, a, p)
    \/ \E t \in SeqTasks, id \in {PyNone} \cup {PyStr(i) : i \in Ids} :
          delete_account(t, id)
    \/ \E t \in SeqTasks, page \in Pages : get_messages(t, page)
    \/ \E t \in SeqTasks, id \in Ids : get_message(t, id)
    \/ \E t \in SeqTasks, id \in Ids : delete_message(t, id)
    \/ \E t \in SeqTasks, id \in Ids : mark_as_seen(t, id)
    \/ \E t \in SeqTasks, id \in Ids : get_source(t, id)
    \/ \E t \in SeqTasks, m \in AllMethods, b \in TestBodies, p \in TestParams :
          interact(t, m, TestUrl, b, p)
    \/ \E t \in SeqTasks, s \in Statuses, b \in Bodies : Respond(t, s, b)
    \/ \E t \in SeqTasks : ReadDone(t)
    \/ \E t \in SeqTasks : Return(t)
    \/ close

Spec == Init /\ [][Next]_vars

ConcStatuses == {200, 404, 429}

\* several callers at once
NextConc ==
    \/ \E t \in Tasks, id \in Ids : get_message(t, id)
    \/ \E t \in Tasks, id \in Ids : delete_message(t, id)
    \/ \E t \in Tasks, s \in ConcStatuses, b \in Bodies : Respond(t, s, b)
    \/ \E t \in Tasks : ReadDone(t)
    \/ \E t \in Tasks : Return(t)
    \/ close

SpecConc == Init /\ [][NextConc]_vars

(***************************************************************************)
(* Properties                                                              *)
(***************************************************************************)
Verbs == {"GET", "POST", "DELETE", "PATCH"}
PublicOps == {"get_me", "get_domains", "get_domain", "get_account",
              "create_account", "delete_account", "get_messages", "get_message",
              "delete_message", "mark_as_seen", "get_source"}
DecodingOps == {"get_me", "get_domains", "get_domain", "get_account",
                "create_account", "get_messages", "get_message", "get_source"}

\* the table of section 4.1
StatusTable ==
    (400 :> "MissingArgument") @@ (401 :> "AccountTokenInvalid") @@
    (404 :> "EntityNotFound") @@ (405 :> "MethodNotAllowed") @@
    (418 :> "RefusedToProcess") @@ (422 :> "EntityNotProcessable") @@
    (429 :> "RatelimitError")

Answered(t) == reply[t] # PyNone
InteractEnded(t) == iout[t] # Pending
DirectCall(t) == frame[t].op = "_interact"

\* C1: a call of interact with a supported verb returns the response bytes on
\* status 200, fails with the table's error kind on 400, 401, 404, 405, 418,
\* 422 and 429, fails with the generic kind on any other status, and never
\* returns a value for a status other than 200.
C1_StatusMapping ==
    \A t \in Tasks :
        (InteractEnded(t) /\ Answered(t) /\ frame[t].method \in Verbs) =>
            LET st == reply[t].status IN
            /\ st = 200 => iout[t] = Return_(PyBytes(reply[t].body))
            /\ st \in DOMAIN StatusTable => iout[t] = Raise(StatusTable[st])
            /\ st \notin DOMAIN StatusTable \cup {200} => iout[t] = Raise("ValueError")
            /\ st # 200 => iout[t].kind = "raise"

C1_Witness ==
    \E t \in Tasks :
        /\ DirectCall(t) /\ pc[t] = "done" /\ Answered(t)
        /\ reply[t].status = 204
        /\ iout[t] = Raise("ValueError")

\* C2: a call of interact with a supported verb issues exactly one request,
\* which carries the given method and URL and drops neither the body nor the
\* params the caller passed.
C2_NothingDropped ==
    \A t \in Tasks :
        (pc[t] # "idle" /\ DirectCall(t) /\ frame[t].method \in Verbs) =>
            /\ Len(sent[t]) = 1
            /\ sent[t][1].method = frame[t].method
            /\ sent[t][1].url = frame[t].url
            /\ sent[t][1].json = frame[t].body
            /\ sent[t][1].params = frame[t].params

\* C3: deleteAccount without an explicit id issues a DELETE to /accounts/{id}
\* of the token's account id on a gateway constructed with a token, and fails
\* with AccountTokenInvalid without any request on a gateway without one.
C3_DeleteAccountNoId ==
    \A t \in Tasks :
        (pc[t] # "idle" /\ frame[t].op = "delete_account"
            /\ frame[t].args = <<PyNone>>) =>
            IF _account_token # PyNone
            THEN /\ Len(sent[t]) = 1
                 /\ sent[t][1].method = "DELETE"
                 /\ sent[t][1].url =
                       [base |-> "https://api.mail.tm",
                        path |-> <<"accounts", _account_token.id>>]
            ELSE /\ pc[t] = "done"
                 /\ outcome[t] = Raise("AccountTokenInvalid")
                 /\ sent[t] = <<>>
                 /\ reply[t] = PyNone

C3_Witness ==
    \E t \in Tasks :
        /\ frame[t].op = "delete_account" /\ frame[t].args = <<PyNone>>
        /\ _account_token = Token("a3", "k3")
        /\ pc[t] = "awaiting"
        /\ sent[t][1].url.path = <<"accounts", "a3">>

\* C4: a decoding operation whose response has status 200 and empty bytes
\* returns None and attempts no decode.
C4_EmptyBytesGiveNone ==
    \A t \in Tasks :
        (pc[t] = "done" /\ frame[t].op \in DecodingOps /\ Answered(t)
            /\ reply[t].status = 200 /\ reply[t].body = EMPTY) =>
            /\ outcome[t] = Return_(PyNone)
            /\ decodes[t] = 0

\* C5: getAccount(id) issues a POST to /accounts/{id} whose request carries
\* the query parameter id with the given id as its value.
C5_GetAccountQueryId ==
    \A t \in Tasks :
        (pc[t] # "idle" /\ frame[t].op = "get_account") =>
            /\ Len(sent[t]) = 1
            /\ sent[t][1].method = "POST"
            /\ sent[t][1].url.path = <<"accounts", frame[t].args[1].v>>
            /\ sent[t][1].params = PyDict([id |-> frame[t].args[1].v])

\* C6: a call of interact with a verb outside GET, POST, DELETE, PATCH fails
\* with MethodNotAllowed and has issued no request when it fails.
C6_UnsupportedVerb ==
    \A t \in Tasks :
        (pc[t] # "idle" /\ DirectCall(t) /\ frame[t].method \notin Verbs) =>
            /\ pc[t] = "done"
            /\ iout[t] = Raise("MethodNotAllowed")
            /\ outcome[t] = Raise("MethodNotAllowed")
            /\ sent[t] = <<>>
            /\ reply[t] = PyNone

C6_Witness ==
    \E t \in Tasks :
        /\ DirectCall(t) /\ frame[t].method = "PUT" /\ pc[t] = "done"
        /\ frame[t].params # PyNone

\* C7: a public operation issues at most one request per call, whatever the
\* status of the response.
C7_AtMostOneRequest ==
    \A t \in Tasks :
        frame[t].op \in PublicOps => Len(sent[t]) <= 1

C7_Witness ==
    \E t \in Tasks :
        /\ frame[t].op = "delete_account" /\ pc[t] = "done" /\ Answered(t)
        /\ reply[t].status = 429
        /\ Len(sent[t]) = 1

\* C8: a public operation whose response status is not 200 fails towards its
\* caller with the error kind interact produced for that status; it does not
\* complete normally and does not replace the error.
C8_ErrorsPropagate ==
    \A t \in Tasks :
        (frame[t].op \in PublicOps /\ Answered(t) /\ reply[t].status # 200) =>
            /\ pc[t] = "done"
            /\ iout[t].kind = "raise"
            /\ outcome[t] = iout[t]
            /\ reply[t].status = 429 => outcome[t] = Raise("RatelimitError")
            /\ (frame[t].op = "get_me" /\ reply[t].status = 401)
                  => outcome[t] = Raise("AccountTokenInvalid")

C8_Witness ==
    \E t \in Tasks :
        /\ frame[t].op = "mark_as_seen" /\ pc[t] = "done" /\ Answered(t)
        /\ reply[t].status = 429
        /\ outcome[t] = Raise("RatelimitError")

BearerHeaders ==
    IF _account_token = PyNone
    THEN {}
    ELSE {<<"Authorization", <<"Bearer", _account_token>>>>}

RequestsCarryAuth ==
    \A t \in Tasks : \A i \in DOMAIN sent[t] : sent[t][i].headers = BearerHeaders

\* C9: construction issues no request, the token and the session headers
\* never change afterwards, and every request carries the bearer header of
\* the construction token, or none when there was no token.
C9_AuthFixed ==
    /\ \A t \in Tasks : sent[t] = <<>>
    /\ []RequestsCarryAuth
    /\ [][_account_token' = _account_token /\ headers' = headers]_vars

C9_Witness ==
    \E t \in Tasks :
        /\ _account_token = Token("a1", "k1")
        /\ frame[t].op = "get_messages" /\ pc[t] = "done"
        /\ reply[t] # PyNone /\ reply[t].status = 401
        /\ sent[t][1].headers = {<<"Authorization", <<"Bearer", Token("a1", "k1")>>>>}

OwnReplyDecides ==
    \A t, u \in Tasks :
        (pc[t] = "done" /\ pc[u] = "done" /\ frame[t].op = frame[u].op
            /\ reply[t] = reply[u]) => outcome[t] = outcome[u]

Locals(t) == <<frame[t], sent[t], reply[t], result[t], iout[t], decodes[t],
               outcome[t]>>

\* C10: with several operations in flight, an operation's outcome is decided
\* by the reply to its own request (equal operations with equal replies end
\* equally, whatever the others did), and a step of one operation changes no
\* other operation's state and no gateway authentication state.
C10_NoCrossTalk ==
    /\ []OwnReplyDecides
    /\ [][/\ \A u \in Tasks : pc'[u] = pc[u] => Locals(u)' = Locals(u)
          /\ _account_token' = _account_token
          /\ headers' = headers]_vars

C10_Witness ==
    /\ pc[1] = "done" /\ frame[1].op = "get_message"
    /\ reply[1].status = 404 /\ outcome[1] = Raise("EntityNotFound")
    /\ pc[2] = "reading" /\ frame[2].op = "get_message"
    /\ reply[2].status = 200 /\ reply[2].body = JSON_DOC

====
